---- MODULE Spec2Model ----
(***************************************************************************)
(* Model of the Matrix Orbital display driver (src/mtxorb.c, the version   *)
(* that matches src/mtxorb.h: lines 535-1241).  One session handle, its    *)
(* private data, the process-wide error code, and for every API call the   *)
(* sequence of system calls the call performs.                             *)
(***************************************************************************)
EXTENDS Integers, Sequences, FiniteSets, TLC

VARIABLES
    sess,     \* what the caller's handle points to: "none" (NULL), "open", "freed"
    info,     \* the descriptor p->info points to
    cc,       \* p->current_cc_mode
    err,      \* mtxorb_err
    last,     \* the most recent API call: name, arguments, state before it, result
    trace,    \* the system calls that call made, in order
    wres,     \* what each write() of trace returned, in order
    other,    \* a second handle of the process
    via,      \* the handle the most recent call was given, and the file
              \* descriptor its system calls went to
    cg        \* what the character generator of the first display holds: the
              \* characters of the last init or create command written since open

vars == <<sess, info, cc, err, last, trace, wres, other, via, cg>>

\* ---------------------------------------------------------------- bounds
MaxStrLen == 3

\* ------------------------------------------------------ program constants
MAX_WIDTH == 40
MAX_HEIGHT == 4
MAX_CELLWIDTH == 5
MAX_CELLHEIGHT == 8
MAX_CC == 8

CMD_PREFIX == 254
CMD_CLEAR_SCREEN == 88
CMD_SET_CURSOR_POS == 71
CMD_GO_HOME == 72
CMD_CURSOR_BLOCK_ON == 83
CMD_CURSOR_BLOCK_OFF == 84
CMD_CURSOR_MOVE_BACK == 76
CMD_CURSOR_MOVE_FWD == 77
CMD_CURSOR_ULINE_ON == 74
CMD_CURSOR_ULINE_OFF == 75
CMD_AUTO_SCROLL_ON == 81
CMD_AUTO_SCROLL_OFF == 82
CMD_AUTO_LINE_WRAP_ON == 67
CMD_AUTO_LINE_WRAP_OFF == 68
CMD_CREATE_CC == 78
CMD_BIGNUM_MEDIUM == 109
CMD_BIGNUM_MEDIUM_PLACE == 111
CMD_BIGNUM_LARGE == 110
CMD_BIGNUM_LARGE_PLACE == 35
CMD_HBAR_INIT == 104
CMD_HBAR_PLACE == 124
CMD_VBAR_NARROW_INIT == 115
CMD_VBAR_WIDE_INIT == 118
CMD_VBAR_PLACE == 61
CMD_GPO_OFF == 86
CMD_GPO_ON == 87
CMD_KEY_DEBOUNCE_TIME == 85
CMD_KEYPAD_BACKLIGHT_OFF == 155
CMD_KEYPAD_BRIGHTNESS == 156
CMD_BACKLIGHT_OFF == 70
CMD_BRIGHTNESS_LCD == 153
CMD_BRIGHTNESS_VFD == 89
CMD_CONTRAST == 80
CMD_BACKLIGHT_ON == 66
CMD_BACKLIGHT_COLOR == 130
CMD_KEY_AUTOTX_ON == 65
CMD_KEY_AUTOTX_OFF == 79
CMD_KEY_AUTOREPEAT_MODE == 126
CMD_KEY_AUTOREPEAT_OFF == 96
SPACE == 32

\* mtxorb_errorcode_t
MTXORB_ENONE == 0
MTXORB_ENODEV == 1
MTXORB_ENOLCK == 2
MTXORB_ENOMEM == 3
MTXORB_ETERM == 4
MTXORB_EINVALBAUD == 5
MTXORB_EINVALTYPE == 6
MTXORB_EINVALSIZE == 7
MTXORB_EINVALCSIZE == 8
MTXORB_EMAX_ == 9

\* mtxorb_module_type_t
MTXORB_LCD == 0
MTXORB_LKD == 1
MTXORB_VFD == 2
MTXORB_VKD == 3

\* mtxorb_onoff_t, mtxorb_dir_t, mtxorb_vbar_style_t, mtxorb_bignum_style_t
MTXORB_OFF == 0
MTXORB_ON == 1
MTXORB_RIGHT == 0
MTXORB_LEFT == 1
MTXORB_NARROW == 0
MTXORB_WIDE == 1
MTXORB_MEDIUM == 0
MTXORB_LARGE == 1
MTXORB_TYPEMATIC == 0
MTXORB_HOLD == 1

\* mtxorb_cc_mode_t
CC_HBAR == 0
CC_VBAR == 1
CC_BIGNUM == 2
CC_CUSTOM == 3

\* malloc() returns uninitialised storage and mtxorb_open never assigns
\* current_cc_mode: its first value is any int.  CC_CUSTOM + 1 stands for
\* every int that is not an enumerator of mtxorb_cc_mode_t.
IndeterminateMode == {CC_HBAR, CC_VBAR, CC_BIGNUM, CC_CUSTOM, CC_CUSTOM + 1}

\* ------------------------------------------------------------- helpers
\* store of an int into an unsigned char
Byte(v) == v % 256

Pow2(n) == IF n <= 0 THEN 1 ELSE
           IF n = 1 THEN 2 ELSE
           IF n = 2 THEN 4 ELSE
           IF n = 3 THEN 8 ELSE
           IF n = 4 THEN 16 ELSE 32

\* one write(fd, buf, n) system call
Wr(bytes) == [k |-> "write", b |-> bytes]
Sys(name) == [k |-> name, b |-> << >>]

RECURSIVE Flatten(_)
Flatten(ws) == IF ws = << >> THEN << >> ELSE Head(ws) \o Flatten(Tail(ws))

\* the write() calls of a trace and the bytes they carry
Writes(tr) == SelectSeq(tr, LAMBDA e : e.k = "write")
Bytes(tr) == Flatten([n \in 1..Len(Writes(tr)) |-> Writes(tr)[n].b])

NoInfo == [type |-> -9, width |-> -9, height |-> -9, cellwidth |-> -9,
           cellheight |-> -9, baudrate |-> -9]
NoArgs == << >>

IS_LCD_TYPE(i) == i.type = MTXORB_LCD
IS_LKD_TYPE(i) == i.type = MTXORB_LKD
IS_VFD_TYPE(i) == i.type = MTXORB_VFD
IS_VKD_TYPE(i) == i.type = MTXORB_VKD


\* ------------------------------------------------- private functions
\* mtxorb_validate_info without the check of the cell height
mtxorb_validate_info_no_cellheight(i) ==
    IF i.type < 0 \/ i.type > MTXORB_VKD THEN MTXORB_EINVALTYPE
    ELSE IF (i.width < 0 \/ i.width > MAX_WIDTH) \/
            (i.height < 0 \/ i.height > MAX_HEIGHT) THEN MTXORB_EINVALSIZE
    ELSE IF i.cellwidth < 0 \/ i.cellwidth > MAX_CELLWIDTH THEN MTXORB_EINVALCSIZE
    ELSE MTXORB_ENONE

\* mtxorb_validate_info: the value it leaves in mtxorb_err on failure,
\* MTXORB_ENONE when it returns 0 (mtxorb_err is then left untouched)
mtxorb_validate_info(i) ==
    IF i.type < 0 \/ i.type > MTXORB_VKD THEN MTXORB_EINVALTYPE
    ELSE IF (i.width < 0 \/ i.width > MAX_WIDTH) \/
            (i.height < 0 \/ i.height > MAX_HEIGHT) THEN MTXORB_EINVALSIZE
    ELSE IF (i.cellwidth < 0 \/ i.cellwidth > MAX_CELLWIDTH) \/
            (i.cellheight < 0 \/ i.cellheight > MAX_CELLHEIGHT) THEN MTXORB_EINVALCSIZE
    ELSE MTXORB_ENONE

\* the switch with one more case
BaudSupported_4800(b) == b = 4800 \/ b = 9600 \/ b = 19200 \/ b = 38400 \/ b = 57600

\* the switch on info->baudrate in mtxorb_open
BaudSupported(b) == b = 9600 \/ b = 19200 \/ b = 38400 \/ b = 57600

\* ------------------------------------------------------ text functions
\* the characters the command c loads into the character generator, if it
\* loads any
Loads(c) ==
    IF c.k # "write" \/ Len(c.b) < 2 \/ c.b[1] # CMD_PREFIX THEN "none"
    ELSE IF c.b[2] = CMD_HBAR_INIT THEN "hbar"
    ELSE IF c.b[2] = CMD_VBAR_NARROW_INIT THEN "vbar_narrow"
    ELSE IF c.b[2] = CMD_VBAR_WIDE_INIT THEN "vbar_wide"
    ELSE IF c.b[2] = CMD_BIGNUM_MEDIUM THEN "bignum_medium"
    ELSE IF c.b[2] = CMD_BIGNUM_LARGE THEN "bignum_large"
    ELSE IF c.b[2] = CMD_CREATE_CC THEN "custom"
    ELSE "none"

\* what the character generator holds after the commands tr, having held old
RECURSIVE LastCG(_, _)
LastCG(tr, old) ==
    IF tr = << >> THEN old
    ELSE LastCG(Tail(tr), IF Loads(Head(tr)) # "none" THEN Loads(Head(tr)) ELSE old)

\* the write() calls among the system calls tr
RECURSIVE WriteCalls(_)
WriteCalls(tr) == IF tr = << >> THEN << >>
                  ELSE IF Head(tr).k = "write" THEN <<Head(tr)>> \o WriteCalls(Tail(tr))
                  ELSE WriteCalls(Tail(tr))

\* every write() of tr writing all of its bytes
AllWritten(tr) == [n \in 1..Len(WriteCalls(tr)) |-> Len(WriteCalls(tr)[n].b)]

\* what write(fd, buf, n) can return: -1, or a count up to n
WriteResult(n) == {-1, 0, n} \cup (IF n > 0 THEN {n - 1} ELSE {})

\* what the write() calls of tr can return, one after the other
RECURSIVE WriteResults(_)
WriteResults(tr) ==
    IF tr = << >> THEN { << >> }
    ELSE { <<r>> \o rs : r \in WriteResult(Len(Head(tr).b)), rs \in WriteResults(Tail(tr)) }

\* every function below yields [w |-> the write() calls it makes,
\*                              m |-> current_cc_mode when it returns]
mtxorb_clear(i, mode) ==
    [w |-> << Wr(<<CMD_PREFIX, CMD_CLEAR_SCREEN>>) >>, m |-> mode]

mtxorb_home(i, mode) ==
    [w |-> << Wr(<<CMD_PREFIX, CMD_GO_HOME>>) >>, m |-> mode]

\* the character sent as it is
TextByte_raw(c) == c

\* the byte mtxorb_putc and mtxorb_puts send for the character c
TextByte(c) == IF c = CMD_PREFIX THEN SPACE ELSE c

mtxorb_putc(i, mode, c) ==
    [w |-> << Wr(<<TextByte(c)>>) >>, m |-> mode]

\* the characters before the terminating NUL of the buffer s
RECURSIVE CString(_)
CString(s) == IF s = << >> \/ Head(s) = 0 THEN << >>
              ELSE <<Head(s)>> \o CString(Tail(s))

mtxorb_puts(i, mode, s) ==
    [w |-> [n \in 1..Len(CString(s)) |-> Wr(<<TextByte(CString(s)[n])>>)],
     m |-> mode]

\* mtxorb_write replacing the command prefix as mtxorb_putc does
mtxorb_write_escaped(i, mode, buf, res) ==
    [w |-> << Wr([n \in 1..Len(buf) |-> TextByte(buf[n])]) >>, m |-> mode, ret |-> res]

\* mtxorb_write dropping the result of write()
mtxorb_write_void(i, mode, buf, res) ==
    [w |-> << Wr(buf) >>, m |-> mode, ret |-> Len(buf)]

\* mtxorb_write(handle, buf, nbytes), write() returning res
mtxorb_write(i, mode, buf, res) ==
    [w |-> << Wr(buf) >>, m |-> mode, ret |-> res]

\* mtxorb_read(handle, buf, nbytes, timeout): poll() returns with revents
\* as given and read(), if called, returns res
mtxorb_read(i, mode, nbytes, timeout, revents, res) ==
    IF revents = {}
    THEN [w |-> << [k |-> "poll", b |-> <<timeout>>] >>, m |-> mode, ret |-> 0]
    ELSE [w |-> << [k |-> "poll", b |-> <<timeout>>], [k |-> "read", b |-> <<nbytes>>] >>,
          m |-> mode, ret |-> res]

\* mtxorb_errors
mtxorb_errors ==
    << "No error", "No such device", "No locks available",
       "Not enough space/cannot allocate memory", "Terminal error", "Invalid baudrate",
       "Invalid module type", "Invalid display size", "Invalid cell size" >>

\* mtxorb_get_errorcode handing back the code of the last call only
mtxorb_get_errorcode_fresh(e) == IF e = MTXORB_ENONE THEN e ELSE MTXORB_ENODEV

\* mtxorb_get_errorcode(), mtxorb_err holding e
mtxorb_get_errorcode(e) == e

\* mtxorb_get_error_str(), mtxorb_err holding e
mtxorb_get_error_str(e) ==
    IF e >= 0 /\ e < MTXORB_EMAX_ THEN mtxorb_errors[e + 1] ELSE "Unknown error"

\* mtxorb_set_cursor checking each coordinate on its own and always writing
mtxorb_set_cursor_unchecked(i, mode, x, y) ==
    [w |-> << Wr(<<CMD_PREFIX, CMD_SET_CURSOR_POS,
                   IF x >= 0 /\ x < i.width THEN Byte(x + 1) ELSE 0,
                   IF y >= 0 /\ y < i.height THEN Byte(y + 1) ELSE 0>>) >>,
     m |-> mode]

mtxorb_set_cursor(i, mode, x, y) ==
    IF (x >= 0 /\ x < i.width) /\ (y >= 0 /\ y < i.height)
    THEN [w |-> << Wr(<<CMD_PREFIX, CMD_SET_CURSOR_POS, Byte(x + 1), Byte(y + 1)>>) >>,
          m |-> mode]
    ELSE [w |-> << >>, m |-> mode]

mtxorb_move_cursor_back(i, mode) ==
    [w |-> << Wr(<<CMD_PREFIX, CMD_CURSOR_MOVE_BACK>>) >>, m |-> mode]

mtxorb_move_cursor_forward(i, mode) ==
    [w |-> << Wr(<<CMD_PREFIX, CMD_CURSOR_MOVE_FWD>>) >>, m |-> mode]

mtxorb_set_cursor_uline(i, mode, on) ==
    [w |-> << Wr(<<CMD_PREFIX,
                   IF on # 0 THEN CMD_CURSOR_ULINE_ON ELSE CMD_CURSOR_ULINE_OFF>>) >>,
     m |-> mode]

mtxorb_set_auto_scroll(i, mode, on) ==
    [w |-> << Wr(<<CMD_PREFIX,
                   IF on # 0 THEN CMD_AUTO_SCROLL_ON ELSE CMD_AUTO_SCROLL_OFF>>) >>,
     m |-> mode]

mtxorb_set_auto_line_wrap(i, mode, on) ==
    [w |-> << Wr(<<CMD_PREFIX,
                   IF on # 0 THEN CMD_AUTO_LINE_WRAP_ON ELSE CMD_AUTO_LINE_WRAP_OFF>>) >>,
     m |-> mode]

mtxorb_set_cursor_block(i, mode, on) ==
    [w |-> << Wr(<<CMD_PREFIX,
                   IF on # 0 THEN CMD_CURSOR_BLOCK_ON ELSE CMD_CURSOR_BLOCK_OFF>>) >>,
     m |-> mode]

\* ---------------------------------------- special character functions
\* data is << >> for a NULL pointer, else the 8 rows
\* mtxorb_create_custom_char copying the rows without the mask
mtxorb_create_custom_char_unmasked(i, mode, id, data) ==
    IF data # << >> /\ (id >= 0 /\ id < MAX_CC)
    THEN [w |-> << Wr(<<CMD_PREFIX, CMD_CREATE_CC, Byte(id)>> \o
                      [n \in 1..8 |-> IF n - 1 < i.cellheight THEN data[n] ELSE 0]) >>,
          m |-> CC_CUSTOM]
    ELSE [w |-> << >>, m |-> mode]

mtxorb_create_custom_char(i, mode, id, data) ==
    IF data # << >> /\ (id >= 0 /\ id < MAX_CC)
    THEN [w |-> << Wr(<<CMD_PREFIX, CMD_CREATE_CC, Byte(id)>> \o
                      [n \in 1..8 |-> IF n - 1 < i.cellheight
                                      THEN data[n] % Pow2(i.cellwidth) ELSE 0]) >>,
          m |-> CC_CUSTOM]
    ELSE [w |-> << >>, m |-> mode]

\* mtxorb_hbar sending the init command on every call
mtxorb_hbar_always_init(i, mode, x, y, len, dir) ==
    IF (x >= 0 /\ x < i.width) /\ (y >= 0 /\ y < i.height) /\ (len >= 0 /\ len <= 100)
    THEN [w |-> << Wr(<<CMD_PREFIX, CMD_HBAR_INIT>>),
                   Wr(<<CMD_PREFIX, CMD_HBAR_PLACE, Byte(x + 1), Byte(y + 1),
                        IF dir = MTXORB_LEFT THEN 1 ELSE 0, Byte(len)>>) >>,
          m |-> CC_HBAR]
    ELSE [w |-> << >>, m |-> mode]

mtxorb_hbar(i, mode, x, y, len, dir) ==
    IF (x >= 0 /\ x < i.width) /\ (y >= 0 /\ y < i.height) /\ (len >= 0 /\ len <= 100)
    THEN [w |-> (IF mode # CC_HBAR THEN << Wr(<<CMD_PREFIX, CMD_HBAR_INIT>>) >> ELSE << >>)
                \o << Wr(<<CMD_PREFIX, CMD_HBAR_PLACE, Byte(x + 1), Byte(y + 1),
                           IF dir = MTXORB_LEFT THEN 1 ELSE 0, Byte(len)>>) >>,
          m |-> CC_HBAR]
    ELSE [w |-> << >>, m |-> mode]

\* mtxorb_vbar treating the horizontal bar characters as its own
mtxorb_vbar_shared_init(i, mode, x, len, style) ==
    IF (x >= 0 /\ x < i.width) /\ (len >= 0 /\ len <= 32)
    THEN [w |-> (IF mode # CC_VBAR /\ mode # CC_HBAR
                 THEN << Wr(<<CMD_PREFIX, IF style = MTXORB_WIDE THEN CMD_VBAR_WIDE_INIT
                                          ELSE CMD_VBAR_NARROW_INIT>>) >>
                 ELSE << >>)
                \o << Wr(<<CMD_PREFIX, CMD_VBAR_PLACE, Byte(x + 1), Byte(len)>>) >>,
          m |-> CC_VBAR]
    ELSE [w |-> << >>, m |-> mode]

\* mtxorb_vbar sending the init command of a wide bar on every call
mtxorb_vbar_wide_reinit(i, mode, x, len, style) ==
    IF (x >= 0 /\ x < i.width) /\ (len >= 0 /\ len <= 32)
    THEN [w |-> (IF mode # CC_VBAR \/ style = MTXORB_WIDE
                 THEN << Wr(<<CMD_PREFIX, IF style = MTXORB_WIDE THEN CMD_VBAR_WIDE_INIT
                                          ELSE CMD_VBAR_NARROW_INIT>>) >>
                 ELSE << >>)
                \o << Wr(<<CMD_PREFIX, CMD_VBAR_PLACE, Byte(x + 1), Byte(len)>>) >>,
          m |-> CC_VBAR]
    ELSE [w |-> << >>, m |-> mode]

mtxorb_vbar(i, mode, x, len, style) ==
    IF (x >= 0 /\ x < i.width) /\ (len >= 0 /\ len <= 32)
    THEN [w |-> (IF mode # CC_VBAR
                 THEN << Wr(<<CMD_PREFIX, IF style = MTXORB_WIDE THEN CMD_VBAR_WIDE_INIT
                                          ELSE CMD_VBAR_NARROW_INIT>>) >>
                 ELSE << >>)
                \o << Wr(<<CMD_PREFIX, CMD_VBAR_PLACE, Byte(x + 1), Byte(len)>>) >>,
          m |-> CC_VBAR]
    ELSE [w |-> << >>, m |-> mode]

\* mtxorb_bignum passing the coordinates on as the caller counts them
mtxorb_bignum_zero_based(i, mode, x, y, digit, style) ==
    IF (x >= 0 /\ x < i.width) /\ (digit >= 0 /\ digit < 10)
    THEN [w |-> (IF mode # CC_BIGNUM
                 THEN << Wr(<<CMD_PREFIX, IF style = MTXORB_LARGE THEN CMD_BIGNUM_LARGE
                                          ELSE CMD_BIGNUM_MEDIUM>>) >>
                 ELSE << >>)
                \o (IF style = MTXORB_LARGE
                    THEN << Wr(<<CMD_PREFIX, CMD_BIGNUM_LARGE_PLACE, Byte(x),
                                 Byte(digit)>>) >>
                    ELSE IF y >= 0 /\ y < i.height
                    THEN << Wr(<<CMD_PREFIX, CMD_BIGNUM_MEDIUM_PLACE, Byte(y),
                                 Byte(x), Byte(digit)>>) >>
                    ELSE << >>),
          m |-> CC_BIGNUM]
    ELSE [w |-> << >>, m |-> mode]

mtxorb_bignum(i, mode, x, y, digit, style) ==
    IF (x >= 0 /\ x < i.width) /\ (digit >= 0 /\ digit < 10)
    THEN [w |-> (IF mode # CC_BIGNUM
                 THEN << Wr(<<CMD_PREFIX, IF style = MTXORB_LARGE THEN CMD_BIGNUM_LARGE
                                          ELSE CMD_BIGNUM_MEDIUM>>) >>
                 ELSE << >>)
                \o (IF style = MTXORB_LARGE
                    THEN << Wr(<<CMD_PREFIX, CMD_BIGNUM_LARGE_PLACE, Byte(x + 1),
                                 Byte(digit)>>) >>
                    ELSE IF y >= 0 /\ y < i.height
                    THEN << Wr(<<CMD_PREFIX, CMD_BIGNUM_MEDIUM_PLACE, Byte(y + 1),
                                 Byte(x + 1), Byte(digit)>>) >>
                    ELSE << >>),
          m |-> CC_BIGNUM]
    ELSE [w |-> << >>, m |-> mode]

\* --------------------------------------------------- display functions
mtxorb_backlight_on(i, mode, minutes) ==
    IF IS_LCD_TYPE(i) \/ IS_LKD_TYPE(i)
    THEN [w |-> << Wr(<<CMD_PREFIX, CMD_BACKLIGHT_ON,
                        IF minutes > 0 /\ minutes < 256 THEN Byte(minutes) ELSE 0>>) >>,
          m |-> mode]
    ELSE [w |-> << >>, m |-> mode]

\* mtxorb_set_contrast without the test of the module type
mtxorb_set_contrast_any_type(i, mode, value) ==
    IF value >= 0 /\ value < 256
    THEN [w |-> << Wr(<<CMD_PREFIX, CMD_CONTRAST, Byte(value)>>) >>, m |-> mode]
    ELSE [w |-> << >>, m |-> mode]

mtxorb_backlight_off(i, mode) ==
    IF IS_LCD_TYPE(i) \/ IS_LKD_TYPE(i)
    THEN [w |-> << Wr(<<CMD_PREFIX, CMD_BACKLIGHT_OFF>>) >>, m |-> mode]
    ELSE [w |-> << >>, m |-> mode]

mtxorb_set_contrast(i, mode, value) ==
    IF (IS_LCD_TYPE(i) \/ IS_LKD_TYPE(i)) /\ (value >= 0 /\ value < 256)
    THEN [w |-> << Wr(<<CMD_PREFIX, CMD_CONTRAST, Byte(value)>>) >>, m |-> mode]
    ELSE [w |-> << >>, m |-> mode]

\* mtxorb_set_brightness without the clamp of the VFD value
mtxorb_set_brightness_no_clamp(i, mode, value) ==
    IF value >= 0 /\ value < 256
    THEN IF IS_VFD_TYPE(i) \/ IS_VKD_TYPE(i)
         THEN [w |-> << Wr(<<CMD_PREFIX, CMD_BRIGHTNESS_VFD, Byte(value)>>) >>, m |-> mode]
         ELSE [w |-> << Wr(<<CMD_PREFIX, CMD_BRIGHTNESS_LCD, Byte(value)>>) >>, m |-> mode]
    ELSE [w |-> << >>, m |-> mode]

\* mtxorb_set_brightness with the command that also saves the value
mtxorb_set_brightness_saved(i, mode, value) ==
    IF value >= 0 /\ value < 256
    THEN [w |-> << Wr(<<CMD_PREFIX, 152, Byte(value)>>) >>, m |-> mode]
    ELSE [w |-> << >>, m |-> mode]

mtxorb_set_brightness(i, mode, value) ==
    IF value >= 0 /\ value < 256
    THEN IF IS_VFD_TYPE(i) \/ IS_VKD_TYPE(i)
         THEN [w |-> << Wr(<<CMD_PREFIX, CMD_BRIGHTNESS_VFD,
                             Byte(IF value > 3 THEN 3 ELSE value)>>) >>, m |-> mode]
         ELSE [w |-> << Wr(<<CMD_PREFIX, CMD_BRIGHTNESS_LCD, Byte(value)>>) >>, m |-> mode]
    ELSE [w |-> << >>, m |-> mode]

mtxorb_set_bg_color(i, mode, r, g, b) ==
    IF IS_LCD_TYPE(i) \/ IS_LKD_TYPE(i)
    THEN [w |-> << Wr(<<CMD_PREFIX, CMD_BACKLIGHT_COLOR, r % 256, g % 256, b % 256>>) >>,
          m |-> mode]
    ELSE [w |-> << >>, m |-> mode]

\* ------------------------------------- general purpose output functions
\* bit n (0-based) of the non-negative integer flags
Bit(flags, n) == (flags \div Pow2(n)) % 2

\* mtxorb_set_output numbering the outputs from 0
mtxorb_set_output_zero_based(i, mode, flags) ==
    IF IS_LKD_TYPE(i) \/ IS_VKD_TYPE(i)
    THEN [w |-> [n \in 1..6 |-> Wr(<<CMD_PREFIX,
                                     IF Bit(flags, n - 1) # 0 THEN CMD_GPO_ON ELSE CMD_GPO_OFF,
                                     n - 1>>)],
          m |-> mode]
    ELSE [w |-> << Wr(<<CMD_PREFIX, IF flags # 0 THEN CMD_GPO_ON ELSE CMD_GPO_OFF>>) >>,
          m |-> mode]

mtxorb_set_output(i, mode, flags) ==
    IF IS_LKD_TYPE(i) \/ IS_VKD_TYPE(i)
    THEN [w |-> [n \in 1..6 |-> Wr(<<CMD_PREFIX,
                                     IF Bit(flags, n - 1) # 0 THEN CMD_GPO_ON ELSE CMD_GPO_OFF,
                                     n>>)],
          m |-> mode]
    ELSE [w |-> << Wr(<<CMD_PREFIX, IF flags # 0 THEN CMD_GPO_ON ELSE CMD_GPO_OFF>>) >>,
          m |-> mode]

\* ---------------------------------------------------- keypad functions
mtxorb_keypad_backlight_off(i, mode) ==
    IF IS_LKD_TYPE(i)
    THEN [w |-> << Wr(<<CMD_PREFIX, CMD_KEYPAD_BACKLIGHT_OFF>>) >>, m |-> mode]
    ELSE [w |-> << >>, m |-> mode]

mtxorb_set_keypad_brightness(i, mode, value) ==
    IF IS_LKD_TYPE(i) /\ (value >= 0 /\ value < 256)
    THEN [w |-> << Wr(<<CMD_PREFIX, CMD_KEYPAD_BRIGHTNESS, Byte(value)>>) >>, m |-> mode]
    ELSE [w |-> << >>, m |-> mode]

mtxorb_set_key_auto_tx(i, mode, on) ==
    IF IS_LKD_TYPE(i) \/ IS_VKD_TYPE(i)
    THEN [w |-> << Wr(<<CMD_PREFIX,
                        IF on # 0 THEN CMD_KEY_AUTOTX_ON ELSE CMD_KEY_AUTOTX_OFF>>) >>,
          m |-> mode]
    ELSE [w |-> << >>, m |-> mode]

mtxorb_set_key_autorepeat_mode(i, mode, rmode) ==
    IF IS_LKD_TYPE(i) \/ IS_VKD_TYPE(i)
    THEN [w |-> << Wr(<<CMD_PREFIX, CMD_KEY_AUTOREPEAT_MODE,
                        IF rmode # 0 THEN 1 ELSE 0>>) >>,
          m |-> mode]
    ELSE [w |-> << >>, m |-> mode]

\* mtxorb_set_key_autorepeat_off without the test of the module type
mtxorb_set_key_autorepeat_off_any_type(i, mode) ==
    [w |-> << Wr(<<CMD_PREFIX, CMD_KEY_AUTOREPEAT_OFF>>) >>, m |-> mode]

mtxorb_set_key_autorepeat_off(i, mode) ==
    IF IS_LKD_TYPE(i) \/ IS_VKD_TYPE(i)
    THEN [w |-> << Wr(<<CMD_PREFIX, CMD_KEY_AUTOREPEAT_OFF>>) >>, m |-> mode]
    ELSE [w |-> << >>, m |-> mode]

mtxorb_set_key_debounce_time(i, mode, value) ==
    IF (IS_LKD_TYPE(i) \/ IS_VKD_TYPE(i)) /\ (value >= 0 /\ value < 256)
    THEN [w |-> << Wr(<<CMD_PREFIX, CMD_KEY_DEBOUNCE_TIME, Byte(value)>>) >>, m |-> mode]
    ELSE [w |-> << >>, m |-> mode]

\* ------------------------------------------------------ open and close
\* mtxorb_open: env is what the operating system answers:
\* "nodev" open() fails, "tcfail" tcsetattr() fails, "nomem" malloc() fails.
\* Yields the handle returned (ret = 1) or NULL (ret = 0), the value stored
\* in mtxorb_err (e, or the old value old) and the system calls made.
mtxorb_open(i, isnull, env, old) ==
    IF isnull THEN [ret |-> 0, e |-> old, tr |-> << >>]
    ELSE IF mtxorb_validate_info(i) # MTXORB_ENONE
    THEN [ret |-> 0, e |-> mtxorb_validate_info(i), tr |-> << >>]
    ELSE IF ~BaudSupported(i.baudrate)
    THEN [ret |-> 0, e |-> MTXORB_EINVALBAUD, tr |-> << >>]
    ELSE IF env = "nodev"
    THEN [ret |-> 0, e |-> MTXORB_ENODEV, tr |-> << Sys("open_failed") >>]
    ELSE IF env = "tcfail"
    THEN [ret |-> 0, e |-> MTXORB_ETERM,
          tr |-> << Sys("open"), Sys("tcgetattr"), Sys("tcflush"),
                    Sys("tcsetattr_failed") >>]
    ELSE IF env = "nomem"
    THEN [ret |-> 0, e |-> MTXORB_ENOMEM,
          tr |-> << Sys("open"), Sys("tcgetattr"), Sys("tcflush"), Sys("tcsetattr"),
                    Sys("malloc_failed") >>]
    ELSE [ret |-> 1, e |-> old,
          tr |-> << Sys("open"), Sys("tcgetattr"), Sys("tcflush"), Sys("tcsetattr"),
                    Sys("malloc") >>
                 \o mtxorb_clear(i, 0).w \o mtxorb_home(i, 0).w]

\* mtxorb_close clearing the screen before it turns the backlight off
mtxorb_close_clear_first(i, mode, fdval) ==
    (IF fdval >= 0
     THEN mtxorb_clear(i, mode).w
          \o mtxorb_set_cursor_block(i, mode, MTXORB_OFF).w
          \o mtxorb_backlight_off(i, mode).w
          \o mtxorb_keypad_backlight_off(i, mode).w
          \o mtxorb_set_output(i, mode, 0).w
          \o << Sys("tcdrain"), Sys("tcsetattr"), Sys("close") >>
     ELSE << >>)
    \o << Sys("free") >>

\* mtxorb_close on a non-NULL handle whose fd field reads as fdval
mtxorb_close(i, mode, fdval) ==
    (IF fdval >= 0
     THEN mtxorb_backlight_off(i, mode).w
          \o mtxorb_clear(i, mode).w
          \o mtxorb_set_cursor_block(i, mode, MTXORB_OFF).w
          \o mtxorb_keypad_backlight_off(i, mode).w
          \o mtxorb_set_output(i, mode, 0).w
          \o << Sys("tcdrain"), Sys("tcsetattr"), Sys("close") >>
     ELSE << >>)
    \o << Sys("free") >>

\* ------------------------------------------------------------- inputs
\* descriptors handed to mtxorb_open: every field takes valid and invalid values
Types == {-1, MTXORB_LCD, MTXORB_LKD, MTXORB_VFD, MTXORB_VKD, MTXORB_VKD + 1}
Widths == {-1, 0, 2, MAX_WIDTH + 1}
Heights == {0, 1, MAX_HEIGHT + 1}
CellWidths == {MAX_CELLWIDTH, MAX_CELLWIDTH + 1}
CellHeights == {-1, MAX_CELLHEIGHT}
Bauds == {4800, 19200, 57600}
Infos == [type : Types, width : Widths, height : Heights, cellwidth : CellWidths,
          cellheight : CellHeights, baudrate : Bauds]
Envs == {"ok", "nodev", "tcfail", "nomem"}

\* descriptors of the displays the drawing commands are exercised on
SessionInfos == [type : {MTXORB_LCD, MTXORB_LKD, MTXORB_VFD, MTXORB_VKD},
                 width : {2}, height : {1}, cellwidth : {MAX_CELLWIDTH},
                 cellheight : {MAX_CELLHEIGHT}, baudrate : {19200}]

\* one descriptor that opens and one for every way of being refused
ErrInfos ==
    LET good == [type |-> MTXORB_LCD, width |-> 2, height |-> 1,
                 cellwidth |-> MAX_CELLWIDTH, cellheight |-> MAX_CELLHEIGHT,
                 baudrate |-> 19200]
    IN { good, [good EXCEPT !.type = -1], [good EXCEPT !.width = MAX_WIDTH + 1],
         [good EXCEPT !.cellwidth = MAX_CELLWIDTH + 1], [good EXCEPT !.baudrate = 4800] }

\* a second display, wider than the first
OtherInfos == [type : {MTXORB_LKD, MTXORB_VFD}, width : {3}, height : {1},
               cellwidth : {MAX_CELLWIDTH}, cellheight : {MAX_CELLHEIGHT},
               baudrate : {9600}]

\* displays with smaller character cells
GlyphInfos == [type : {MTXORB_LCD, MTXORB_VKD}, width : {2}, height : {1},
               cellwidth : {0, 3, MAX_CELLWIDTH}, cellheight : {0, 7, MAX_CELLHEIGHT},
               baudrate : {19200}]

XS(i) == {-1, 0, i.width - 1, i.width}
YS(i) == {-1, 0, i.height - 1, i.height}
HLens == {-1, 0, 100, 101}
VLens == {-1, 0, 32, 33}
Digits == {-1, 0, 9, 10}
Values == {-1, 0, 255, 256}
BrightValues == {-1, 0, 3, 4, 255, 256}
Minutes == {-1, 0, 1, 255, 256}
Colors == { <<0, 0, 0>>, <<1, 2, 3>>, <<255, 0, 128>>, <<256, -1, 511>> }
Flags == {0, 1, 21, 32, 63, 64}
RawBuffers == { << >>, <<CMD_PREFIX>>, <<CMD_PREFIX, CMD_CLEAR_SCREEN>>, <<0, 65, CMD_PREFIX>> }
FaultyTexts == { <<65, 66>>, <<CMD_PREFIX, 0, 65>> }
ReadSizes == {1, 2}
Timeouts == {0, 100}
\* poll(): "timeout" returns 0, "ready" sets POLLIN, "fault" returns -1 and
\* leaves revents as it was, "error" and "hangup" set POLLERR and POLLHUP
PollAnswers == {"timeout", "ready", "fault", "error", "hangup"}
Revents(a) == IF a = "ready" THEN {"POLLIN"}
              ELSE IF a = "error" THEN {"POLLERR"}
              ELSE IF a = "hangup" THEN {"POLLHUP"} ELSE {}
\* read(): a count, 0 at end of file, -1 on error
ReadResult(a, nbytes) == IF a = "ready" THEN 1..nbytes \cup {-1}
                         ELSE IF a = "hangup" THEN {0, -1} ELSE {-1}
Ids == {-1, 0, MAX_CC - 1, MAX_CC}
\* custom_char of the test program, and a glyph with every bit set
Glyphs == { << >>, <<0, 10, 31, 31, 14, 4, 0, 0>>,
            <<255, 255, 255, 255, 255, 255, 255, 255>> }
TextBytes == {0, 65, 66, CMD_PREFIX}
RECURSIVE Buffers(_)
Buffers(n) == IF n = 0 THEN { << >> }
              ELSE Buffers(n - 1) \cup
                   { <<c>> \o s : c \in TextBytes, s \in { t \in Buffers(n - 1) : Len(t) = n - 1 } }
TextBuffers == Buffers(MaxStrLen)

NoMode == CC_HBAR - 1

NoOther == [sess |-> "none", info |-> NoInfo, cc |-> NoMode, port |-> "none"]

\* one file descriptor for every handle
HandleFd_shared(h) == 3

\* p->fd of the first and of the second handle: the descriptors open()
\* returns after stdin, stdout and stderr
HandleFd(h) == h + 2

\* the call was given handle h
Via(h) == [h |-> h, fd |-> HandleFd(h)]

InfoArgs(i) == <<i.type, i.width, i.height, i.cellwidth, i.cellheight, i.baudrate>>

\* ------------------------------------------------------------ actions
Init ==
    /\ sess = "none"
    /\ info = NoInfo
    /\ cc = NoMode
    /\ err = MTXORB_ENONE
    /\ last = [op |-> "init", args |-> NoArgs, text |-> << >>, env |-> "",
               pre |-> NoMode, psess |-> "none", ret |-> 0]
    /\ trace = << >>
    /\ wres = << >>
    /\ other = NoOther
    /\ via = Via(1)
    /\ cg = "none"

\* mtxorb_open(info) with info = NULL
OpenNull ==
    /\ sess \in {"none", "freed"}
    /\ LET r == mtxorb_open(NoInfo, TRUE, "ok", err) IN
         /\ last' = [op |-> "open", args |-> NoArgs, text |-> << >>, env |-> "ok",
                     pre |-> NoMode, psess |-> sess, ret |-> r.ret]
         /\ trace' = r.tr
         /\ wres' = AllWritten(r.tr)
         /\ err' = r.e
    /\ sess' = "none"
    /\ info' = NoInfo
    /\ cc' = NoMode
    /\ via' = Via(1)
    /\ cg' = "none"
    /\ UNCHANGED other

\* mtxorb_open(&i) for a descriptor of the set D, the system answering env
OpenWith(D, E) ==
    /\ sess \in {"none", "freed"}
    /\ \E i \in D :
       \E env \in IF mtxorb_open(i, FALSE, "ok", err).tr = << >> THEN {"ok"} ELSE E :
         LET r == mtxorb_open(i, FALSE, env, err) IN
         /\ last' = [op |-> "open", args |-> InfoArgs(i), text |-> << >>, env |-> env,
                     pre |-> NoMode, psess |-> sess, ret |-> r.ret]
         /\ trace' = r.tr
         /\ wres' = AllWritten(r.tr)
         /\ err' = r.e
         /\ IF r.ret = 1
            THEN /\ sess' = "open"
                 /\ info' = i
                 /\ cc' \in IndeterminateMode
            ELSE /\ sess' = "none"
                 /\ info' = NoInfo
                 /\ cc' = NoMode
    /\ via' = Via(1)
    /\ cg' = "none"
    /\ UNCHANGED other

\* any descriptor, any answer of the system
Open == OpenWith(Infos, Envs)

\* a valid descriptor on a port that opens
OpenDisplay == OpenWith(SessionInfos, {"ok"})

\* mtxorb_close(handle).  After a close the caller's handle still points to
\* the freed block: p->fd then reads as the old descriptor or as anything.
Close ==
    /\ \E stale \in {"intact", "garbage"} :
         /\ (sess # "freed") => stale = "intact"
         /\ last' = [op |-> "close", args |-> NoArgs, text |-> << >>,
                     env |-> IF sess = "freed" THEN stale ELSE "",
                     pre |-> cc, psess |-> sess, ret |-> 0]
         /\ trace' = IF sess = "none" THEN << >>
                     ELSE mtxorb_close(info, cc, IF stale = "intact" THEN 3 ELSE -1)
         /\ wres' = AllWritten(trace')
    /\ sess' = IF sess = "none" THEN "none" ELSE "freed"
    /\ cc' = IF sess = "none" THEN cc ELSE NoMode
    /\ via' = Via(1)
    /\ cg' = "none"
    /\ UNCHANGED <<info, err, other>>

\* a call on an open session that returns nothing
Call(op, args, text, r) ==
    /\ sess = "open"
    /\ last' = [op |-> op, args |-> args, text |-> text, env |-> "",
                pre |-> cc, psess |-> sess, ret |-> 0]
    /\ trace' = r.w
    /\ wres' = AllWritten(r.w)
    /\ cc' = r.m
    /\ via' = Via(1)
    /\ cg' = LastCG(r.w, cg)
    /\ UNCHANGED <<sess, info, err, other>>

\* a call on an open session that returns nothing, write() failing or
\* writing less at will: the functions do not look at what mtxorb_write returns
CallFaulty(op, args, text, r) ==
    /\ sess = "open"
    /\ last' = [op |-> op, args |-> args, text |-> text, env |-> "",
                pre |-> cc, psess |-> sess, ret |-> 0]
    /\ trace' = r.w
    /\ wres' \in WriteResults(r.w)
    /\ cc' = r.m
    /\ via' = Via(1)
    /\ cg' = LastCG(r.w, cg)
    /\ UNCHANGED <<sess, info, err, other>>

\* a call on an open session that returns an int
CallInt(op, args, text, env, r, rs) ==
    /\ sess = "open"
    /\ last' = [op |-> op, args |-> args, text |-> text, env |-> env,
                pre |-> cc, psess |-> sess, ret |-> r.ret]
    /\ trace' = r.w
    /\ wres' = rs
    /\ cc' = r.m
    /\ via' = Via(1)
    /\ cg' = LastCG(r.w, cg)
    /\ UNCHANGED <<sess, info, err, other>>

Clear == Call("clear", NoArgs, << >>, mtxorb_clear(info, cc))

Home == Call("home", NoArgs, << >>, mtxorb_home(info, cc))

Putc == \E c \in TextBytes : Call("putc", <<c>>, << >>, mtxorb_putc(info, cc, c))

Puts == \E s \in TextBuffers : Call("puts", NoArgs, s, mtxorb_puts(info, cc, s))

SetCursor == \E x \in XS(info), y \in YS(info) :
    Call("set_cursor", <<x, y>>, << >>, mtxorb_set_cursor(info, cc, x, y))

SetCursorBlock == \E on \in {MTXORB_OFF, MTXORB_ON} :
    Call("set_cursor_block", <<on>>, << >>, mtxorb_set_cursor_block(info, cc, on))

CreateCustomChar == \E id \in Ids, data \in Glyphs :
    Call("create_custom_char", <<id>>, data, mtxorb_create_custom_char(info, cc, id, data))

Hbar == \E x \in XS(info), y \in YS(info), len \in HLens, dir \in {MTXORB_RIGHT, MTXORB_LEFT} :
    Call("hbar", <<x, y, len, dir>>, << >>, mtxorb_hbar(info, cc, x, y, len, dir))

Vbar == \E x \in XS(info), len \in VLens, style \in {MTXORB_NARROW, MTXORB_WIDE} :
    Call("vbar", <<x, len, style>>, << >>, mtxorb_vbar(info, cc, x, len, style))

Bignum == \E x \in XS(info), y \in YS(info), digit \in Digits,
             style \in {MTXORB_MEDIUM, MTXORB_LARGE} :
    Call("bignum", <<x, y, digit, style>>, << >>, mtxorb_bignum(info, cc, x, y, digit, style))

BacklightOff == Call("backlight_off", NoArgs, << >>, mtxorb_backlight_off(info, cc))

SetContrast == \E v \in Values :
    Call("set_contrast", <<v>>, << >>, mtxorb_set_contrast(info, cc, v))

SetBrightness == \E v \in BrightValues :
    Call("set_brightness", <<v>>, << >>, mtxorb_set_brightness(info, cc, v))

SetOutput == \E flags \in Flags :
    Call("set_output", <<flags>>, << >>, mtxorb_set_output(info, cc, flags))

KeypadBacklightOff ==
    Call("keypad_backlight_off", NoArgs, << >>, mtxorb_keypad_backlight_off(info, cc))

SetKeypadBrightness == \E v \in Values :
    Call("set_keypad_brightness", <<v>>, << >>, mtxorb_set_keypad_brightness(info, cc, v))

SetKeyDebounceTime == \E v \in Values :
    Call("set_key_debounce_time", <<v>>, << >>, mtxorb_set_key_debounce_time(info, cc, v))

BacklightOn == \E minutes \in Minutes :
    Call("backlight_on", <<minutes>>, << >>, mtxorb_backlight_on(info, cc, minutes))

SetBgColor == \E c \in Colors :
    Call("set_bg_color", c, << >>, mtxorb_set_bg_color(info, cc, c[1], c[2], c[3]))

SetKeyAutoTx == \E on \in {MTXORB_OFF, MTXORB_ON} :
    Call("set_key_auto_tx", <<on>>, << >>, mtxorb_set_key_auto_tx(info, cc, on))

SetKeyAutorepeatMode == \E rmode \in {MTXORB_TYPEMATIC, MTXORB_HOLD} :
    Call("set_key_autorepeat_mode", <<rmode>>, << >>,
         mtxorb_set_key_autorepeat_mode(info, cc, rmode))

SetKeyAutorepeatOff ==
    Call("set_key_autorepeat_off", NoArgs, << >>, mtxorb_set_key_autorepeat_off(info, cc))

MoveCursorBack ==
    Call("move_cursor_back", NoArgs, << >>, mtxorb_move_cursor_back(info, cc))

MoveCursorForward ==
    Call("move_cursor_forward", NoArgs, << >>, mtxorb_move_cursor_forward(info, cc))

SetCursorUline == \E on \in {MTXORB_OFF, MTXORB_ON} :
    Call("set_cursor_uline", <<on>>, << >>, mtxorb_set_cursor_uline(info, cc, on))

SetAutoScroll == \E on \in {MTXORB_OFF, MTXORB_ON} :
    Call("set_auto_scroll", <<on>>, << >>, mtxorb_set_auto_scroll(info, cc, on))

SetAutoLineWrap == \E on \in {MTXORB_OFF, MTXORB_ON} :
    Call("set_auto_line_wrap", <<on>>, << >>, mtxorb_set_auto_line_wrap(info, cc, on))

\* the drawing, text and configuration commands on displays of every type
Next ==
    \/ OpenDisplay
    \/ Close
    \/ Clear
    \/ Home
    \/ Putc
    \/ Puts
    \/ SetCursor
    \/ SetCursorBlock
    \/ CreateCustomChar
    \/ Hbar
    \/ Vbar
    \/ Bignum
    \/ BacklightOff
    \/ SetContrast
    \/ SetBrightness
    \/ SetOutput
    \/ KeypadBacklightOff
    \/ SetKeypadBrightness
    \/ SetKeyDebounceTime
    \/ BacklightOn
    \/ SetBgColor
    \/ SetKeyAutoTx
    \/ SetKeyAutorepeatMode
    \/ SetKeyAutorepeatOff
    \/ MoveCursorBack
    \/ MoveCursorForward
    \/ SetCursorUline
    \/ SetAutoScroll
    \/ SetAutoLineWrap

Spec == Init /\ [][Next]_vars

\* the calls that hand back what the transport answered, and the text
\* calls on a transport whose writes fail
WriteRaw == \E buf \in RawBuffers : \E res \in WriteResult(Len(buf)) :
    CallInt("write", <<Len(buf)>>, buf, "", mtxorb_write(info, cc, buf, res), <<res>>)

Read == \E nbytes \in ReadSizes, timeout \in Timeouts, a \in PollAnswers :
        \E res \in ReadResult(a, nbytes) :
    CallInt("read", <<nbytes, timeout>>, << >>, a,
            mtxorb_read(info, cc, nbytes, timeout, Revents(a), res), << >>)

ClearFaulty == CallFaulty("clear", NoArgs, << >>, mtxorb_clear(info, cc))

PutcFaulty == \E c \in TextBytes :
    CallFaulty("putc", <<c>>, << >>, mtxorb_putc(info, cc, c))

PutsFaulty == \E s \in FaultyTexts :
    CallFaulty("puts", NoArgs, s, mtxorb_puts(info, cc, s))

HbarFaulty == \E len \in HLens :
    CallFaulty("hbar", <<0, 0, len, MTXORB_RIGHT>>, << >>,
               mtxorb_hbar(info, cc, 0, 0, len, MTXORB_RIGHT))

NextIO ==
    \/ OpenDisplay
    \/ WriteRaw
    \/ Read
    \/ ClearFaulty
    \/ PutcFaulty
    \/ PutsFaulty
    \/ HbarFaulty
    \/ Close

SpecIO == Init /\ [][NextIO]_vars

\* mtxorb_open(&i) while the first handle is open, i naming the same port
\* or another one: open() of a terminal that is open already succeeds,
\* nothing in mtxorb_open asks for exclusive access
OpenSecondWith(D, E, port) ==
    /\ sess = "open" /\ other.sess = "none"
    /\ \E i \in D, env \in E :
         LET r == mtxorb_open(i, FALSE, env, err) IN
         /\ last' = [op |-> "open", args |-> InfoArgs(i), text |-> << >>, env |-> env,
                     pre |-> NoMode, psess |-> sess, ret |-> r.ret]
         /\ trace' = r.tr
         /\ wres' = AllWritten(r.tr)
         /\ err' = r.e
         /\ IF r.ret = 1
            THEN \E m \in IndeterminateMode :
                    other' = [sess |-> "open", info |-> i, cc |-> m, port |-> port]
            ELSE other' = NoOther
    /\ via' = Via(2)
    /\ UNCHANGED <<sess, info, cc, cg>>

OpenSecond == OpenSecondWith(SessionInfos, Envs, "same")

\* mtxorb_close of the second handle
CloseSecond ==
    /\ other.sess = "open"
    /\ last' = [op |-> "close", args |-> NoArgs, text |-> << >>, env |-> "",
                pre |-> other.cc, psess |-> other.sess, ret |-> 0]
    /\ trace' = mtxorb_close(other.info, other.cc, HandleFd(2))
    /\ wres' = AllWritten(trace')
    /\ other' = NoOther
    /\ via' = Via(2)
    /\ UNCHANGED <<sess, info, cc, err, cg>>

NextShare ==
    \/ OpenDisplay
    \/ OpenSecond
    \/ CloseSecond
    \/ Close

SpecShare == Init /\ [][NextShare]_vars

\* the error accessors take no handle
CallAccessor(op, r, msg) ==
    /\ last' = [op |-> op, args |-> NoArgs, text |-> msg, env |-> "",
                pre |-> cc, psess |-> sess, ret |-> r]
    /\ trace' = << >>
    /\ wres' = << >>
    /\ via' = Via(1)
    /\ UNCHANGED <<sess, info, cc, err, other, cg>>

GetErrorcode == CallAccessor("get_errorcode", mtxorb_get_errorcode(err), << >>)

GetErrorStr == CallAccessor("get_error_str", 0, << mtxorb_get_error_str(err) >>)

OpenErr == OpenWith(ErrInfos, Envs)

\* failing and succeeding opens, and the calls between them
NextErr ==
    \/ OpenNull
    \/ OpenErr
    \/ GetErrorcode
    \/ GetErrorStr
    \/ Putc
    \/ Vbar
    \/ SetContrast
    \/ WriteRaw
    \/ Read
    \/ Close

SpecErr == Init /\ [][NextErr]_vars

\* two displays on two ports
OpenOther == OpenSecondWith(OtherInfos, {"ok"}, "different")

\* a call on the second handle that returns nothing
CallOther(op, args, text, r) ==
    /\ other.sess = "open"
    /\ last' = [op |-> op, args |-> args, text |-> text, env |-> "",
                pre |-> other.cc, psess |-> other.sess, ret |-> 0]
    /\ trace' = r.w
    /\ wres' = AllWritten(r.w)
    /\ other' = [other EXCEPT !.cc = r.m]
    /\ via' = Via(2)
    /\ UNCHANGED <<sess, info, cc, err, cg>>

PutcOther == \E c \in TextBytes :
    CallOther("putc", <<c>>, << >>, mtxorb_putc(other.info, other.cc, c))

VbarOther == \E x \in XS(other.info), len \in VLens, style \in {MTXORB_NARROW, MTXORB_WIDE} :
    CallOther("vbar", <<x, len, style>>, << >>,
              mtxorb_vbar(other.info, other.cc, x, len, style))

CreateCustomCharOther == \E id \in Ids, data \in Glyphs :
    CallOther("create_custom_char", <<id>>, data,
              mtxorb_create_custom_char(other.info, other.cc, id, data))

NextTwo ==
    \/ OpenDisplay
    \/ OpenOther
    \/ Putc
    \/ Vbar
    \/ CreateCustomChar
    \/ PutcOther
    \/ VbarOther
    \/ CreateCustomCharOther
    \/ CloseSecond
    \/ Close

SpecTwo == Init /\ [][NextTwo]_vars

\* custom characters on displays of every cell size
OpenGlyphDisplay == OpenWith(GlyphInfos, {"ok"})

NextGlyph ==
    \/ OpenGlyphDisplay
    \/ CreateCustomChar
    \/ Home
    \/ Close

SpecGlyph == Init /\ [][NextGlyph]_vars

\* the life cycle of a session: open with any descriptor, close, close again
NextLife ==
    \/ OpenNull
    \/ Open
    \/ Close

SpecLife == Init /\ [][NextLife]_vars

TypeOK ==
    /\ sess \in {"none", "open", "freed"}
    /\ err \in 0..8
    /\ cc \in IndeterminateMode \cup {NoMode}
    /\ Len(wres) = Len(WriteCalls(trace))
    /\ other.sess \in {"none", "open"}

\* ================================================================ claims
\* what the documentation of mtxorb.h calls in range, for the last call
XOk == last.args[1] \in 0..(info.width - 1)
HbarOk == XOk /\ last.args[2] \in 0..(info.height - 1) /\ last.args[3] \in 0..100
VbarOk == XOk /\ last.args[2] \in 0..32
BignumOk == XOk /\ last.args[2] \in 0..(info.height - 1) /\ last.args[3] \in 0..9
DrawOps == {"hbar", "vbar", "bignum"}
DrawOk == \/ last.op = "hbar" /\ HbarOk
          \/ last.op = "vbar" /\ VbarOk
          \/ last.op = "bignum" /\ BignumOk
Family == IF last.op = "hbar" THEN 0 ELSE IF last.op = "vbar" THEN 1 ELSE 2

\* the place command and the init command the protocol defines for the last call
PlaceCmd ==
    IF last.op = "hbar"
    THEN <<254, 124, last.args[1] + 1, last.args[2] + 1, last.args[4], last.args[3]>>
    ELSE IF last.op = "vbar"
    THEN <<254, 61, last.args[1] + 1, last.args[2]>>
    ELSE IF last.args[4] = 1
    THEN <<254, 35, last.args[1] + 1, last.args[3]>>
    ELSE <<254, 111, last.args[2] + 1, last.args[1] + 1, last.args[3]>>
InitCmd ==
    IF last.op = "hbar" THEN <<254, 104>>
    ELSE IF last.op = "vbar" THEN (IF last.args[3] = 1 THEN <<254, 118>> ELSE <<254, 115>>)
    ELSE (IF last.args[4] = 1 THEN <<254, 110>> ELSE <<254, 109>>)

C1_PlaceOnly ==
    (last.op \in DrawOps /\ DrawOk /\ last.pre = Family) =>
        trace = << [k |-> "write", b |-> PlaceCmd] >>

C1_Twice ==
    (/\ last.op = "hbar" /\ HbarOk /\ last.pre # 0
     /\ last'.op = "hbar" /\ HbarOk')
    => /\ Len(trace) = 2 /\ Len(trace') = 1
       /\ Bytes(trace) \o Bytes(trace') = <<254, 104>> \o PlaceCmd \o PlaceCmd'

\* C1: an accepted hbar (vbar, bignum) call made while the mode already is
\* HorizontalBar (VerticalBar, BigNumber) writes only its place command, and
\* two consecutive accepted hbar calls starting from another mode write one
\* init [FE,68] followed by the two place commands.
C1_SameFamilySkipsInit == [](C1_PlaceOnly) /\ [][C1_Twice]_vars

C1_Witness ==
    /\ last.op = "hbar" /\ HbarOk /\ last.pre = 0
    /\ last.args = <<1, 0, 100, 1>>
    /\ Bytes(trace) = <<254, 124, 2, 1, 1, 100>>

\* C2: an accepted hbar, vbar or bignum call of another family than the
\* current mode writes that family's init command, then its place command,
\* and leaves the mode set to that family.
C2_OtherFamilyInits ==
    (last.op \in DrawOps /\ DrawOk /\ last.pre # Family) =>
        /\ trace = << [k |-> "write", b |-> InitCmd], [k |-> "write", b |-> PlaceCmd] >>
        /\ cc = Family

C2_Witness ==
    /\ last.op = "vbar" /\ VbarOk /\ last.pre = 0
    /\ last.args = <<0, 32, 1>>
    /\ Bytes(trace) = <<254, 118, 254, 61, 1, 32>>
    /\ cc = 1

C3_NoneAfterOpen ==
    (last.op = "open" /\ last.ret = 1) => cc \notin {0, 1, 2, 3}

C3_FirstDrawInits ==
    (last.op = "open" /\ last.ret = 1 /\ last'.op \in DrawOps /\ DrawOk') =>
        trace'[1] = [k |-> "write", b |-> InitCmd']

\* C3: after a successful open the mode is None, none of HorizontalBar,
\* VerticalBar, BigNumber, CustomGlyph, so the first accepted hbar, vbar or
\* bignum call after open writes its init command first.
C3_OpenStartsInNone == [](C3_NoneAfterOpen) /\ [][C3_FirstDrawInits]_vars

\* a call with one parameter whose documented range is 0..255
ValueOps == {"set_contrast", "set_brightness", "set_keypad_brightness",
             "set_key_debounce_time"}

\* the last call has a parameter outside its documented range
OutOfRange ==
    \/ last.op = "set_cursor" /\ ~(XOk /\ last.args[2] \in 0..(info.height - 1))
    \/ last.op = "hbar" /\ ~HbarOk
    \/ last.op = "vbar" /\ ~VbarOk
    \/ last.op = "bignum" /\ ~BignumOk
    \/ last.op = "create_custom_char" /\ last.args[1] \notin 0..7
    \/ last.op \in ValueOps /\ last.args[1] \notin 0..255

\* C4: a set_cursor, hbar, vbar, bignum, create_custom_char, set_contrast,
\* set_brightness, set_keypad_brightness or set_key_debounce_time call with
\* a parameter outside its range writes no byte and leaves the mode unchanged.
C4_RejectedCallWritesNothing ==
    OutOfRange => trace = << >> /\ cc = last.pre

\* C5: set_cursor with x in [0,width) and y in [0,height) writes exactly
\* [FE,47,x+1,y+1]; with x or y out of range it writes nothing.
C5_SetCursorBytes ==
    last.op = "set_cursor" =>
        IF last.args[1] >= 0 /\ last.args[1] < info.width /\
           last.args[2] >= 0 /\ last.args[2] < info.height
        THEN trace = << [k |-> "write", b |-> <<254, 71, last.args[1] + 1, last.args[2] + 1>>] >>
        ELSE trace = << >>

C5_Witness ==
    /\ last.op = "set_cursor"
    /\ last.args = <<1, 0>>
    /\ Bytes(trace) = <<254, 71, 2, 1>>

\* the caller's text: the characters of the buffer before its first NUL
TextLen(s) == CHOOSE n \in 0..Len(s) :
                  /\ \A j \in 1..n : s[j] # 0
                  /\ n = Len(s) \/ s[n + 1] = 0

\* C6: put-char and put-string never write 0xFE: each character of the text
\* is written as one byte, in order, 0xFE as 0x20 and any other unchanged.
C6_PrefixNeverInText ==
    /\ last.op = "putc" =>
          trace = << [k |-> "write",
                      b |-> << IF last.args[1] = 254 THEN 32 ELSE last.args[1] >>] >>
    /\ last.op = "puts" =>
          /\ Len(trace) = TextLen(last.text)
          /\ \A n \in 1..Len(trace) :
                trace[n] = [k |-> "write",
                            b |-> << IF last.text[n] = 254 THEN 32 ELSE last.text[n] >>]
    /\ last.op \in {"putc", "puts"} => \A n \in 1..Len(Bytes(trace)) : Bytes(trace)[n] # 254

C6_Witness ==
    /\ last.op = "puts"
    /\ last.text = <<65, 254, 66>>
    /\ Bytes(trace) = <<65, 32, 66>>

\* the descriptor handed to the last open call
OpenArg == [type |-> last.args[1], width |-> last.args[2], height |-> last.args[3],
            cellwidth |-> last.args[4], cellheight |-> last.args[5],
            baudrate |-> last.args[6]]
OpenCalled == last.op = "open" /\ last.args # << >>
TypeUnknown == OpenArg.type \notin {0, 1, 2, 3}
SizeOutOfBounds == OpenArg.width \notin 0..40 \/ OpenArg.height \notin 0..4
CellOutOfBounds == OpenArg.cellwidth \notin 0..5 \/ OpenArg.cellheight \notin 0..8
DescriptorInvalid == TypeUnknown \/ SizeOutOfBounds \/ CellOutOfBounds

C8_InvalidBaudRejected ==
    (OpenCalled /\ ~DescriptorInvalid /\ OpenArg.baudrate \notin {9600, 19200, 38400, 57600}) =>
        /\ last.ret = 0 /\ sess = "none"
        /\ trace = << >>
        /\ err = MTXORB_EINVALBAUD

C8_Witness ==
    /\ OpenCalled /\ ~DescriptorInvalid
    /\ OpenArg.baudrate = 4800
    /\ last.ret = 0 /\ trace = << >>
    /\ err = MTXORB_EINVALBAUD

\* the position of the close() system call in the trace, 0 if there is none
Released == IF \E n \in 1..Len(trace) : trace[n].k = "close"
            THEN CHOOSE n \in 1..Len(trace) : trace[n].k = "close" ELSE 0
WritesBeforeRelease ==
    /\ Released # 0
    /\ \A n \in 1..Len(trace) : trace[n].k = "write" => n < Released
\* outputs-off: one command per output on keypad types, one command otherwise
OutputsOff ==
    IF info.type \in {1, 3}
    THEN <<254, 86, 1, 254, 86, 2, 254, 86, 3, 254, 86, 4, 254, 86, 5, 254, 86, 6>>
    ELSE <<254, 86>>
ClosedOpenSession == last.op = "close" /\ last.psess = "open"

\* C9 as stated: close writes [FE,46], [FE,58], [FE,54], [FE,9B] and
\* outputs-off, in this order, all before the transport is released.
C9_QuiesceAllCommands ==
    ClosedOpenSession =>
        /\ Bytes(trace) = <<254, 70, 254, 88, 254, 84, 254, 155>> \o OutputsOff
        /\ WritesBeforeRelease

\* C9: close on an open session calls backlight-off, clear, cursor-block-off,
\* keypad-backlight-off and outputs-off in this order, each writing what it
\* writes on the module type: [FE,46] on LCD and LKD only, [FE,58], [FE,54],
\* [FE,9B] on LKD only, then outputs-off; every write precedes the release
\* of the transport and none follows it.
C9_QuiesceInOrder ==
    ClosedOpenSession =>
        /\ Bytes(trace) = (IF info.type \in {0, 1} THEN <<254, 70>> ELSE << >>)
                          \o <<254, 88, 254, 84>>
                          \o (IF info.type = 1 THEN <<254, 155>> ELSE << >>)
                          \o OutputsOff
        /\ WritesBeforeRelease
        /\ sess = "freed"

C9_Witness ==
    /\ ClosedOpenSession
    /\ info.type = 0
    /\ Bytes(trace) = <<254, 70, 254, 88, 254, 84, 254, 86>>
    /\ trace[Len(trace)].k = "free"

\* C10: a second close on the same session is a no-op: it writes nothing,
\* touches no released resource and does not close or free a second time.
C10_SecondCloseNoOp ==
    (last.op = "close" /\ last.psess = "freed") => trace = << >>

\* the commands of the keypad
KeypadOps == {"keypad_backlight_off", "set_keypad_brightness", "set_key_auto_tx",
              "set_key_autorepeat_mode", "set_key_autorepeat_off",
              "set_key_debounce_time"}

\* C11: on the module types without keypad, LCD and VFD, every keypad
\* command writes zero bytes, whatever its parameter.
C11_KeypadOnlyOnKeypadTypes ==
    (last.op \in KeypadOps /\ last.psess = "open" /\ info.type \in {0, 2}) =>
        trace = << >>

C11_Witness ==
    /\ last.op = "set_key_autorepeat_off" /\ last.psess = "open"
    /\ info.type = 2
    /\ trace = << >>

LcdOps == {"set_contrast", "set_bg_color", "backlight_on", "backlight_off"}

\* C12: on VFD and VKD set-contrast, set-background-color, backlight-on and
\* backlight-off write zero bytes for every parameter; on LCD and LKD with
\* parameters in 0..255 they write [FE,50,value], [FE,82,r,g,b],
\* [FE,42,minutes] and [FE,46].
C12_LcdOnlyCommands ==
    (last.op \in LcdOps /\ last.psess = "open") =>
        IF info.type \in {2, 3} THEN trace = << >>
        ELSE /\ (last.op = "set_contrast" /\ last.args[1] \in 0..255) =>
                    Bytes(trace) = <<254, 80, last.args[1]>>
             /\ (last.op = "set_bg_color" /\ \A n \in 1..3 : last.args[n] \in 0..255) =>
                    Bytes(trace) = <<254, 130, last.args[1], last.args[2], last.args[3]>>
             /\ (last.op = "backlight_on" /\ last.args[1] \in 0..255) =>
                    Bytes(trace) = <<254, 66, last.args[1]>>
             /\ last.op = "backlight_off" => Bytes(trace) = <<254, 70>>
             /\ (\A n \in 1..Len(last.args) : last.args[n] \in 0..255) => Len(trace) = 1

C12_Witness ==
    /\ last.op = "set_contrast" /\ last.psess = "open"
    /\ info.type = 3 /\ last.args = <<255>>
    /\ trace = << >>

\* C13: set-brightness with v in 0..255 writes [FE,99,v] on LCD and LKD and
\* [FE,59,min(v,3)] on VFD and VKD, so a VFD never receives a value above 3;
\* with v outside 0..255 it writes nothing on any type.
C13_BrightnessBytes ==
    (last.op = "set_brightness" /\ last.psess = "open") =>
        IF last.args[1] \notin 0..255 THEN trace = << >>
        ELSE IF info.type \in {0, 1}
        THEN trace = << [k |-> "write", b |-> <<254, 153, last.args[1]>>] >>
        ELSE /\ trace = << [k |-> "write",
                            b |-> <<254, 89, IF last.args[1] < 3 THEN last.args[1] ELSE 3>>] >>
             /\ trace[1].b[3] \in 0..3

C13_Witness ==
    /\ last.op = "set_brightness" /\ last.psess = "open"
    /\ info.type = 2 /\ last.args = <<255>>
    /\ Bytes(trace) = <<254, 89, 3>>

\* bit n (from 0) of flags, computed by repeated halving
RECURSIVE FlagBit(_, _)
FlagBit(flags, n) == IF n = 0 THEN flags % 2 ELSE FlagBit(flags \div 2, n - 1)

\* C14: set-output(flags) on LKD and VKD writes six 3-byte commands, for the
\* outputs 1..6 in ascending order, [FE,57,i] if bit i-1 of flags is set and
\* [FE,56,i] otherwise; on LCD and VFD it writes one 2-byte command, [FE,57]
\* if flags is non-zero and [FE,56] if it is zero.
C14_OutputCommands ==
    (last.op = "set_output" /\ last.psess = "open") =>
        IF info.type \in {1, 3}
        THEN /\ Len(trace) = 6
             /\ \A n \in 1..6 :
                   trace[n] = [k |-> "write",
                               b |-> <<254, IF FlagBit(last.args[1], n - 1) = 1 THEN 87 ELSE 86, n>>]
        ELSE trace = << [k |-> "write", b |-> <<254, IF last.args[1] # 0 THEN 87 ELSE 86>>] >>

C14_Witness ==
    /\ last.op = "set_output" /\ last.psess = "open"
    /\ info.type = 3 /\ last.args = <<21>>
    /\ Bytes(trace) = <<254, 87, 1, 254, 86, 2, 254, 87, 3, 254, 86, 4, 254, 87, 5, 254, 86, 6>>

CustomCharCalled ==
    /\ last.op = "create_custom_char" /\ last.psess = "open"
    /\ last.args[1] \in 0..7 /\ last.text # << >>

\* C15 as stated: create-custom-char with id in 0..7 writes [FE,4E,id,b0..b7]
\* where every one of the eight rows is the caller's row ANDed with
\* (1 << cell_width) - 1.
C15_EveryRowMasked ==
    CustomCharCalled =>
        trace = << [k |-> "write",
                    b |-> <<254, 78, last.args[1]>> \o
                          [n \in 1..8 |-> last.text[n] % (2 ^ info.cellwidth)]] >>

\* C15: create-custom-char with id in 0..7 writes [FE,4E,id,b0..b7] in one
\* write; the rows below cell_height are the caller's rows ANDed with
\* (1 << cell_width) - 1 and the rows from cell_height on are 0, so no
\* transmitted row has a bit set at or above cell_width.
C15_RowsMaskedBelowCellHeight ==
    CustomCharCalled =>
        /\ Len(trace) = 1 /\ trace[1].k = "write" /\ Len(trace[1].b) = 11
        /\ SubSeq(trace[1].b, 1, 3) = <<254, 78, last.args[1]>>
        /\ \A n \in 1..8 :
              /\ trace[1].b[n + 3] = IF n <= info.cellheight
                                     THEN last.text[n] % (2 ^ info.cellwidth) ELSE 0
              /\ trace[1].b[n + 3] < 2 ^ info.cellwidth

C15_Witness ==
    /\ CustomCharCalled
    /\ info.cellwidth = 5 /\ info.cellheight = 7
    /\ last.text = <<255, 255, 255, 255, 255, 255, 255, 255>>
    /\ Bytes(trace) = <<254, 78, 7, 31, 31, 31, 31, 31, 31, 31, 0>>

\* the column bytes and the row bytes of one command, by its opcode:
\* 47 x y, 7C x y dir len, 3D x len, 23 x digit, 6F y x digit
ColumnBytes(c) ==
    IF c.k # "write" \/ Len(c.b) < 3 THEN {}
    ELSE IF c.b[2] \in {71, 124, 61, 35} THEN {c.b[3]}
    ELSE IF c.b[2] = 111 THEN {c.b[4]} ELSE {}

RowBytes(c) ==
    IF c.k # "write" \/ Len(c.b) < 4 THEN {}
    ELSE IF c.b[2] \in {71, 124} THEN {c.b[4]}
    ELSE IF c.b[2] = 111 THEN {c.b[3]} ELSE {}

CoordinateOps == {"set_cursor", "hbar", "vbar", "bignum"}

\* C16: every coordinate byte written by set_cursor, hbar, vbar and bignum
\* is the caller's 0-based coordinate plus one: a column byte is x + 1 and
\* lies in 1..width, a row byte is y + 1 and lies in 1..height, and never 0.
C16_CoordinatesOneBased ==
    (last.op \in CoordinateOps /\ last.psess = "open") =>
        \A n \in 1..Len(trace) :
            /\ \A c \in ColumnBytes(trace[n]) :
                  c = last.args[1] + 1 /\ c \in 1..info.width /\ c # 0
            /\ \A r \in RowBytes(trace[n]) :
                  r = last.args[2] + 1 /\ r \in 1..info.height /\ r # 0

C16_Witness ==
    /\ last.op = "bignum" /\ last.psess = "open"
    /\ last.args = <<1, 0, 9, 0>> /\ last.pre = 2
    /\ Bytes(trace) = <<254, 111, 1, 2, 9>>

\* some write() of the last call failed or wrote less than it was given
WriteFailed ==
    \E n \in 1..Len(wres) : wres[n] # Len(WriteCalls(trace)[n].b)

VoidOps == {"clear", "putc", "puts", "hbar"}

\* the caller of the last call can see that a write failed: the call
\* returned the failing result, or the error code is set
FailureReported ==
    \/ err # 0
    \/ last.op \notin VoidOps /\ last.ret = wres[1]

\* C17 as stated: when the transport write of an operation fails or is
\* short, the failure is reported to the caller of the operation.
C17_FailedWriteReported ==
    (last.psess = "open" /\ WriteFailed) => FailureReported

\* C17: write-raw returns the result of its transport write, so -1 or the
\* short count reaches its caller; the other operations return nothing and
\* leave the error code as it is, whatever their writes returned.
C17_OnlyWriteRawReports ==
    /\ (last.op = "write" /\ last.psess = "open") =>
            /\ Len(wres) = 1 /\ last.ret = wres[1]
            /\ WriteFailed <=> (last.ret = -1 \/ last.ret < last.args[1])
    /\ (last.op \in VoidOps /\ last.psess = "open") =>
            last.ret = 0 /\ err = 0

C17_Witness ==
    /\ last.op = "clear" /\ last.psess = "open"
    /\ trace = << [k |-> "write", b |-> <<254, 88>>] >>
    /\ wres = <<-1>>
    /\ err = 0

\* C18 as stated: read returns 0 when no data is ready within the timeout,
\* the number of bytes read when data is ready, and an error exactly when
\* the transport is at fault, a fault of the readiness poll included; a
\* fault is never reported as 0.  It polls once, with the caller's timeout.
C18_ReadResult ==
    (last.op = "read" /\ last.psess = "open") =>
        /\ trace[1] = [k |-> "poll", b |-> <<last.args[2]>>]
        /\ \A n \in 2..Len(trace) : trace[n].k # "poll"
        /\ last.env = "timeout" => last.ret = 0
        /\ last.env = "ready" => last.ret \in (1..last.args[1]) \cup {-1}
        /\ last.env \in {"fault", "error"} => last.ret = -1
        /\ last.ret = 0 => last.env \in {"timeout", "hangup"}

\* C19: write-raw hands the caller's bytes to the transport as they are, a
\* 0xFE byte included, in a single write, and returns what the transport
\* returned: the number of bytes written, or -1.
C19_WriteRawPassthrough ==
    (last.op = "write" /\ last.psess = "open") =>
        /\ trace = << [k |-> "write", b |-> last.text] >>
        /\ last.ret = wres[1]
        /\ last.ret = -1 \/ last.ret \in 0..Len(last.text)

C19_Witness ==
    /\ last.op = "write" /\ last.psess = "open"
    /\ last.text = <<0, 65, 254>>
    /\ Bytes(trace) = <<0, 65, 254>>
    /\ last.ret = 3

\* C20 as stated: while a session is open on a port, any further open on
\* the same port fails with DeviceUnavailable, also when the operating
\* system itself refuses nothing.
C20_SecondOpenRefused ==
    (last.op = "open" /\ last.psess = "open" /\ last.env = "ok") =>
        /\ last.ret = 0
        /\ err = 1
        /\ other.sess = "none"

BothOpen == sess = "open" /\ other.sess = "open" /\ other.port = "different"

\* C21: with two sessions open on different ports, an operation on one
\* session writes only to the file descriptor of that session and leaves the
\* custom-character mode and the descriptor of the other session as they were.
C21_SessionsIsolated ==
    /\ [](BothOpen => via.fd = IF via.h = 1 THEN 3 ELSE 4)
    /\ [][(BothOpen /\ BothOpen') =>
            /\ via'.h = 1 => other' = other
            /\ via'.h = 2 => (cc' = cc /\ info' = info)]_vars

C21_Witness ==
    /\ BothOpen
    /\ via = [h |-> 2, fd |-> 4]
    /\ last.op = "vbar" /\ last.pre = 0
    /\ Len(trace) = 2
    /\ other.cc = 1 /\ cc = 3

\* the opcodes that change nothing but the volatile state of the display
VolatileOpcodes ==
    {88, 72, 71, 76, 77, 83, 84, 74, 75, 81, 82, 67, 68, 78, 104, 124, 115, 118, 61,
     109, 110, 111, 35, 66, 70, 80, 153, 89, 130, 87, 86, 155, 156, 65, 79, 126, 96, 85}

\* save, remember and startup opcodes: 40, 91, 98, 93, C1, C2, C3, 34, 39
NonVolatileOpcodes == {64, 145, 152, 147, 193, 194, 195, 52, 57}

\* C22: in what open, close and every drawing, text, display, output and
\* keypad operation write, the byte after the command prefix 0xFE is one of
\* the volatile opcodes, never a save, remember or startup opcode; text is
\* written without a prefix.
C22_OnlyVolatileOpcodes ==
    \A n \in 1..Len(trace) :
        (trace[n].k = "write" /\ trace[n].b # << >>) =>
            IF trace[n].b[1] = 254
            THEN /\ Len(trace[n].b) >= 2
                 /\ trace[n].b[2] \in VolatileOpcodes
                 /\ trace[n].b[2] \notin NonVolatileOpcodes
            ELSE last.op \in {"putc", "puts"} /\ Len(trace[n].b) = 1

C22_Witness ==
    /\ last.op = "set_brightness" /\ last.psess = "open"
    /\ info.type = 0 /\ last.args = <<255>>
    /\ Bytes(trace) = <<254, 153, 255>>

\* C23: the last-error code is changed by open only: close, write-raw,
\* read, the text, drawing and display calls and the two accessors leave it
\* as it is, and get-last-error-code returns it, no-error as long as no open
\* has set it.
C23_ErrorSetOnlyByOpen ==
    /\ [][last'.op # "open" => err' = err]_vars
    /\ [](last.op = "get_errorcode" => last.ret = err)
    /\ [](last.op = "init" => err = 0)

C23_Witness ==
    /\ last.op = "get_errorcode" /\ last.ret = 4
    /\ sess = "open"

\* C30 as stated: a successful open leaves the last-error code as it was, a
\* code once set stays set, and every failed open sets one, so that
\* get-last-error-code returns no-error only if no open has ever failed.
C30_NoErrorOnlyIfNoOpenFailed ==
    /\ [][(last'.op = "open" /\ last'.ret = 1) => err' = err]_vars
    /\ [][err # 0 => err' # 0]_vars
    /\ [][(last'.op = "open" /\ last'.ret = 0) => err' # 0]_vars

\* C24 as stated: open of a descriptor with width or height 0, as with
\* width above 40 or height above 4, and nothing else wrong with it, returns
\* no session and sets the last error to InvalidDisplaySize.
C24_ZeroSizeRejected ==
    (OpenCalled /\ ~TypeUnknown /\ ~CellOutOfBounds /\
     OpenArg.baudrate \in {9600, 19200, 38400, 57600} /\ last.env = "ok" /\
     (OpenArg.width \notin 1..40 \/ OpenArg.height \notin 1..4)) =>
        /\ last.ret = 0
        /\ sess # "open"
        /\ err = 7

\* the family a place command belongs to: 7C, 3D, 6F and 23
PlaceFamily(c) ==
    IF c.k # "write" \/ Len(c.b) < 2 \/ c.b[1] # 254 THEN "none"
    ELSE IF c.b[2] = 124 THEN "hbar"
    ELSE IF c.b[2] = 61 THEN "vbar"
    ELSE IF c.b[2] \in {111, 35} THEN "bignum"
    ELSE "none"

\* the family of the init or create command written last before the n-th
\* command of the call being made
LoadedBefore(n) ==
    LET prior == { k \in 1..(n - 1) :
                     /\ trace'[k].k = "write" /\ Len(trace'[k].b) >= 2
                     /\ trace'[k].b[2] \in {104, 115, 118, 109, 110, 78} }
    IN IF prior = {}
       THEN (IF cg \in {"vbar_narrow", "vbar_wide"} THEN "vbar"
             ELSE IF cg \in {"bignum_medium", "bignum_large"} THEN "bignum" ELSE cg)
       ELSE LET k == CHOOSE k \in prior : \A j \in prior : j <= k
            IN IF trace'[k].b[2] = 104 THEN "hbar"
               ELSE IF trace'[k].b[2] \in {115, 118} THEN "vbar"
               ELSE IF trace'[k].b[2] \in {109, 110} THEN "bignum" ELSE "custom"

\* C25 as stated: a draw call writes a place command of a family only when
\* the last init or create-custom-char command the session has written since
\* open is an init of that family; a place command is never the first
\* character-generator command after open.
C25_PlaceOnlyAfterOwnInit ==
    [][(sess' = "open" /\ last'.op \in DrawOps) =>
          \A n \in 1..Len(trace') :
              PlaceFamily(trace'[n]) # "none" =>
                  LoadedBefore(n) = PlaceFamily(trace'[n])]_vars

\* the last call is a drawing or custom-character call with every parameter
\* it uses in range: the row of a large digit is not used
AcceptedDraw ==
    \/ last.op = "hbar" /\ HbarOk
    \/ last.op = "vbar" /\ VbarOk
    \/ last.op = "bignum" /\ XOk /\ last.args[3] \in 0..9 /\
           (last.args[4] = 1 \/ last.args[2] \in 0..(info.height - 1))
    \/ last.op = "create_custom_char" /\ last.args[1] \in 0..7 /\ last.text # << >>

\* C26 as stated: the custom-character mode is changed only by accepted
\* hbar, vbar, bignum and create-custom-char calls; every other call on the
\* open session and every rejected call leaves it as it was, and no call
\* changes the descriptor.
C26_ModeChangedOnlyByAcceptedDraw ==
    /\ []((last.psess = "open" /\ last.op \notin {"init", "open", "close"} /\ ~AcceptedDraw)
            => cc = last.pre)
    /\ [][last'.op # "open" => info' = info]_vars

InitOpcodes == {104, 115, 118, 109, 110}

IsInit(c) == c.k = "write" /\ Len(c.b) = 2 /\ c.b[1] = 254 /\ c.b[2] \in InitOpcodes

InitFamily(c) == IF c.b[2] = 104 THEN "hbar"
                 ELSE IF c.b[2] \in {115, 118} THEN "vbar" ELSE "bignum"

\* C27 as stated: every init command a draw call writes is followed at once,
\* in the same call, by a place command of the same family; a draw call
\* never changes the mode without writing a place command.
C27_InitFollowedByPlace ==
    (last.op \in DrawOps /\ last.psess = "open") =>
        /\ \A n \in 1..Len(trace) :
              IsInit(trace[n]) =>
                  /\ n < Len(trace)
                  /\ PlaceFamily(trace[n + 1]) = InitFamily(trace[n])
        /\ cc # last.pre => \E n \in 1..Len(trace) : PlaceFamily(trace[n]) # "none"

\* C28: the style chooses the init command only when the family is entered:
\* in VerticalBar mode an accepted vbar call of either style writes only
\* [FE,3D,x+1,len]; in BigNumber mode a bignum call of either style writes no
\* init, only [FE,23,x+1,digit] for a large digit and [FE,6F,y+1,x+1,digit]
\* for a medium one.
C28_StyleOnlyAtEntry ==
    /\ (last.op = "vbar" /\ last.psess = "open" /\ VbarOk /\ last.pre = 1) =>
            trace = << [k |-> "write", b |-> <<254, 61, last.args[1] + 1, last.args[2]>>] >>
    /\ (last.op = "bignum" /\ last.psess = "open" /\ BignumOk /\ last.pre = 2) =>
            trace = << [k |-> "write",
                        b |-> IF last.args[4] = 1
                              THEN <<254, 35, last.args[1] + 1, last.args[3]>>
                              ELSE <<254, 111, last.args[2] + 1, last.args[1] + 1,
                                     last.args[3]>>] >>

C28_Witness ==
    /\ last.op = "vbar" /\ last.psess = "open"
    /\ last.args = <<1, 32, 1>> /\ last.pre = 1
    /\ cg = "vbar_narrow"
    /\ Bytes(trace) = <<254, 61, 2, 32>>

\* C29 as stated: when open fails after the port has been opened, the port
\* is closed again before open returns, so that a failed open leaves no open
\* file descriptor behind.
C29_FailedOpenClosesPort ==
    (last.op = "open" /\ last.ret = 0) =>
        \A n \in 1..Len(trace) :
            trace[n] = [k |-> "open", b |-> << >>] =>
                \E m \in (n + 1)..Len(trace) : trace[m] = [k |-> "close", b |-> << >>]

====
